---- MODULE Spec2Model ----
(***************************************************************************)
(* PackAWithRowOffset<uint8_t, accT> (src/PackWithRowOffset.cc): packing   *)
(* of one tile of the A operand together with its per-row sums.            *)
(*                                                                         *)
(* The packer is modelled as a state machine: the host's capabilities are  *)
(* fixed in Init, the constructor chooses the blocking profile, and every  *)
(* pack() call is one atomic step that either aborts on an assertion or    *)
(* rewrites the tile and the row-offset buffer.  The buffer-ownership      *)
(* flags (bufAllocatedHere_, rowOffsetAllocatedHere) only matter to the    *)
(* destructor and are left out; both buffers start with arbitrary nonzero  *)
(* contents whether the caller supplied them or the packer allocated them. *)
(* Assertions are enabled (no NDEBUG): a failed assert ends the process.   *)
(* Block sizes are non-negative and the source matrix covers every block   *)
(* presented, so pack() never reads outside the caller's buffer.           *)
(***************************************************************************)
EXTENDS Integers, Sequences, FiniteSets, TLC

(* ----------------------------------------------------------------------- *)
(* Blocking profiles.  PackingTraits<T, accT, isa>::{MCB, KCB,             *)
(* ROW_INTERLEAVE} are defined outside this file; the model uses scaled    *)
(* values that keep KCB a multiple of ROW_INTERLEAVE and keep one profile  *)
(* wider than the 32-byte vector the direct branch sums with.              *)
(* ----------------------------------------------------------------------- *)
MCB_avx512 == 2
KCB_avx512 == 4
ROW_INTERLEAVE_avx512 == 2
MCB_avx2 == 1
KCB_avx2 == 36
ROW_INTERLEAVE_avx2 == 4

\* Number of pack() calls a behaviour makes.
MaxCalls == 2
\* Elements by which the stride exceeds the stored row length.
LdPad == 1

\* Bytes of one __m256i chunk (the j += 32 loop) and its 32-bit lanes (temp[8]).
VecWidth == 32
Lanes == 8

Max(a, b) == IF a > b THEN a ELSE b

\* The logical source matrix has two row tiles and two column tiles of the
\* largest profile.
NRows == 2 * Max(MCB_avx512, MCB_avx2)
NCols == 2 * Max(KCB_avx512, KCB_avx2)

\* Logical element (i, j) of the caller's uint8_t matrix: neighbouring
\* elements differ, and pairs of large values (sum > 255) occur.
Elem(i, j) == (250 + 101 * i + 7 * j + 3 * i * j) % 256

\* The caller's storage of the logical matrix.  NoTranspose: row-major,
\* smat[i * ld + j].  Transpose: smat[i + ld * j].  Stride padding holds 255.
StoreRowMajor(ld) ==
  [k \in 0..(NRows * ld - 1) |->
     IF k % ld < NCols THEN Elem(k \div ld, k % ld) ELSE 255]

StoreColMajor(ld) ==
  [k \in 0..(NCols * ld - 1) |->
     IF k % ld < NRows THEN Elem(k % ld, k \div ld) ELSE 255]

Store(tr, ld) == IF tr THEN StoreColMajor(ld) ELSE StoreRowMajor(ld)

\* Stride that goes with a layout.
Stride(tr) == (IF tr THEN NRows ELSE NCols) + LdPad

NoBlock == [row_start |-> 0, row_size |-> 0, col_start |-> 0, col_size |-> 0]

VARIABLES
  has_avx512f,        \* cpuinfo_has_x86_avx512f()
  has_avx2,           \* cpuinfo_has_x86_avx2()
  cpuinfo_ok,         \* cpuinfo_initialize()
  pc,                 \* "new", "ready" (constructed), "abort" (assertion failed)
  trans_,             \* trans_ == matrix_op_t::Transpose
  smat_,              \* source buffer
  ld_,                \* stride
  brow_,              \* BaseType::brow_  (blockRowSize())
  bcol_,              \* BaseType::bcol_  (blockColSize())
  row_interleave_B_,
  buf_,               \* the tile, brow_ * bcol_ elements
  row_offset_,        \* brow_ int32_t accumulators
  packedBlock_,       \* block recorded by BaseType::packedBlock
  ncalls,             \* pack() calls made
  lastBlock,          \* descriptor of the latest pack() call
  wbuf,               \* tile indices the latest pack() call wrote
  wro,                \* row-offset indices the latest pack() call wrote
  run,                \* column tiles presented in order from column 0
  sizeResult          \* what the latest rowOffsetBufferSize() call gave

vars == <<has_avx512f, has_avx2, cpuinfo_ok, pc, trans_, smat_, ld_, brow_,
          bcol_, row_interleave_B_, buf_, row_offset_, packedBlock_, ncalls,
          lastBlock, wbuf, wro, run, sizeResult>>

host == <<has_avx512f, has_avx2, cpuinfo_ok>>

NoRun == [valid |-> FALSE, row_start |-> 0, row_size |-> 0, end |-> 0]

(* ----------------------------------------------------------------------- *)
(* Arithmetic of the element and accumulator types.                        *)
(* ----------------------------------------------------------------------- *)
\* The int32_t accumulators never leave the 32-bit range here: a row sum is at
\* most the stale entry plus 255 times the columns packed, so the additions
\* below are exact integer additions.

\* Signed saturation to 16 bits (_mm256_maddubs_epi16).
Sat16(x) == IF x > 32767 THEN 32767 ELSE IF x < -32768 THEN -32768 ELSE x

\* (block.col_size + row_interleave_B_ - 1) / row_interleave_B_ * row_interleave_B_
\* (operands are non-negative, so C++ and TLA+ division agree).
RoundUp(n, m) == ((n + m - 1) \div m) * m

block_p(block) ==
  [row_start |-> block.row_start,
   row_size  |-> block.row_size,
   col_start |-> block.col_start,
   col_size  |-> RoundUp(block.col_size, row_interleave_B_)]

PackAsserts_NoRowSize(block) ==
  /\ block.row_start % brow_ = 0
  /\ block.col_start % bcol_ = 0
  /\ block.col_size <= bcol_
  /\ block_p(block).col_size <= bcol_

\* The five assertions at the head of pack().
PackAsserts(block) ==
  /\ block.row_start % brow_ = 0
  /\ block.col_start % bcol_ = 0
  /\ block.row_size <= brow_
  /\ block.col_size <= bcol_
  /\ block_p(block).col_size <= bcol_

(* ----------------------------------------------------------------------- *)
(* Tile writes of one source row i.  src is the source as the packer sees  *)
(* it: [trans, smat, ld].                                                  *)
(* ----------------------------------------------------------------------- *)
Src == [trans |-> trans_, smat |-> smat_, ld |-> ld_]

SrcElem_NoColStart(src, block, i, j) ==
  IF src.trans THEN src.smat[i + src.ld * (block.col_start + j)]
  ELSE src.smat[i * src.ld + j]

\* Element the copy stores at column offset j of the tile row.
\* Transposed: smat_[i + ld_ * j'] with j' = col_start + j.
\* Direct: memcpy from smat_ + i * ld_ + col_start.
SrcElem(src, block, i, j) ==
  IF src.trans THEN src.smat[i + src.ld * (block.col_start + j)]
  ELSE src.smat[i * src.ld + block.col_start + j]

RowBase_AbsoluteRow(block, i) == i * bcol_

\* First tile index of the row that source row i is packed into.
RowBase(block, i) == (i - block.row_start) * bcol_

\* Column offsets the copy writes.
CopyCols(block) == 0..(block.col_size - 1)

ZeroCols_None(block) == {}

ZeroCols_FullWidth(block) == block.col_size..(bcol_ - 1)

\* Column offsets the zero fill writes: up to block_p.col_size.
ZeroCols(block) == block.col_size..(block_p(block).col_size - 1)

\* Tile indices written for source row i.
RowWritten(block, i) ==
  {RowBase(block, i) + j : j \in CopyCols(block) \cup ZeroCols(block)}

\* The tile after row i has been packed into it.
PackRow(src, out, block, i) ==
  [k \in DOMAIN out |->
     LET j == k - RowBase(block, i) IN
       IF j \in CopyCols(block) THEN SrcElem(src, block, i, j)
       ELSE IF j \in ZeroCols(block) THEN 0
       ELSE out[k]]

\* The loop over i = row_start .. row_start + row_size - 1.
RECURSIVE PackRows(_, _, _, _)
PackRows(src, out, block, i) ==
  IF i >= block.row_start + block.row_size THEN out
  ELSE PackRows(src, PackRow(src, out, block, i), block, i + 1)

(* ----------------------------------------------------------------------- *)
(* Row sums.                                                               *)
(* ----------------------------------------------------------------------- *)
row_offset_acc_Never(block) == FALSE

\* bool row_offset_acc = (block.col_start != 0)
row_offset_acc(block) == block.col_start # 0

RowSumInit_Always(ro, block, i) == ro[i - block.row_start]

\* row_offset_acc ? row_offset_buf[i - block.row_start] : 0
RowSumInit(ro, block, i) ==
  IF row_offset_acc(block) THEN ro[i - block.row_start] ELSE 0

\* Transposed branch: row_sum += val for j in [col_start, col_start + col_size).
RECURSIVE TransSum(_, _, _, _, _)
TransSum(src, row_sum, block, i, j) ==
  IF j >= block.col_start + block.col_size THEN row_sum
  ELSE TransSum(src, row_sum + src.smat[i + src.ld * j], block, i, j + 1)

\* _mm256_maddubs_epi16(src_v, one_epi8_v): 16 lanes, unsigned byte times
\* signed 1, adjacent pairs added with signed saturation.
Maddubs(src, base) ==
  [m \in 0..(VecWidth \div 2 - 1) |->
     Sat16(src.smat[base + 2 * m] * 1 + src.smat[base + 2 * m + 1] * 1)]

\* _mm256_madd_epi16(p, one_epi16_v): 8 lanes, adjacent pairs added.
Madd(p) == [k \in 0..(Lanes - 1) |-> p[2 * k] * 1 + p[2 * k + 1] * 1]

\* First column the scalar remainder loop reads.
TailStart_Rescan(block) == block.col_start

TailStart(block) ==
  block.col_start + (block.col_size \div VecWidth) * VecWidth

\* The vector loop: j = col_start, col_start + 32, ... while
\* j < col_start + col_size / 32 * 32.
RECURSIVE VecSum(_, _, _, _, _)
VecSum(src, sum_v, block, i, j) ==
  IF j >= block.col_start + (block.col_size \div VecWidth) * VecWidth THEN sum_v
  ELSE LET m == Madd(Maddubs(src, i * src.ld + j)) IN
       VecSum(src, [k \in 0..(Lanes - 1) |-> sum_v[k] + m[k]],
              block, i, j + VecWidth)

\* The scalar remainder loop.
RECURSIVE TailSum(_, _, _, _, _)
TailSum(src, row_sum, block, i, j) ==
  IF j >= block.col_start + block.col_size THEN row_sum
  ELSE TailSum(src, row_sum + src.smat[i * src.ld + j], block, i, j + 1)

\* for (k = 0; k < 8; ++k) row_sum += temp[k]
RECURSIVE HorizontalSum(_, _, _)
HorizontalSum(row_sum, temp, k) ==
  IF k >= Lanes THEN row_sum
  ELSE HorizontalSum(row_sum + temp[k], temp, k + 1)

DirectSum(src, ro, block, i) ==
  LET sum_v == VecSum(src, [k \in 0..(Lanes - 1) |-> 0], block, i,
                      block.col_start)
      tail  == TailSum(src, RowSumInit(ro, block, i), block, i,
                       TailStart(block))
  IN HorizontalSum(tail, sum_v, 0)

\* Value stored to row_offset_buf[i - row_start].
RowSum(src, ro, block, i) ==
  IF src.trans
    THEN TransSum(src, RowSumInit(ro, block, i), block, i, block.col_start)
    ELSE DirectSum(src, ro, block, i)

RowOffsetWritten_AllRows(block) == 0..(brow_ - 1)

\* Row-offset indices the call writes.
RowOffsetWritten(block) ==
  {i - block.row_start :
     i \in block.row_start..(block.row_start + block.row_size - 1)}

\* The row-offset buffer after the call: row i reads only its own entry.
PackRowOffsets(src, ro, block) ==
  [r \in DOMAIN ro |->
     IF r \in RowOffsetWritten(block)
       THEN RowSum(src, ro, block, block.row_start + r)
       ELSE ro[r]]

(* ----------------------------------------------------------------------- *)
(* Address mapping.  blockCols(), numPackedRows() and numPackedCols() are  *)
(* the base class's view of the block recorded by packedBlock().           *)
(* ----------------------------------------------------------------------- *)
numPackedRows == packedBlock_.row_size
numPackedCols == packedBlock_.col_size
blockCols == (numPackedCols + bcol_ - 1) \div bcol_

addr_RowStrideR(r, c) ==
  ((r \div brow_) * blockCols) * (brow_ * bcol_)
    + (c \div bcol_) * brow_ * bcol_
    + (r % brow_) * brow_ + (c % bcol_)

addr(r, c) ==
  LET block_row_id   == r \div brow_
      brow_offset    == (block_row_id * blockCols) * (brow_ * bcol_)
      block_col_id   == c \div bcol_
      bcol_offset    == block_col_id * brow_ * bcol_
      block_offset   == brow_offset + bcol_offset
      inblock_offset == (r % brow_) * bcol_ + (c % bcol_)
  IN block_offset + inblock_offset

(* ----------------------------------------------------------------------- *)
(* Operations.                                                             *)
(* ----------------------------------------------------------------------- *)
NoSize == [kind |-> "none", value |-> 0]

\* The host: cpuinfo reports an instruction set only once its
\* initialisation has succeeded.
Init ==
  /\ cpuinfo_ok \in BOOLEAN
  /\ has_avx512f \in (IF cpuinfo_ok THEN BOOLEAN ELSE {FALSE})
  /\ has_avx2 \in (IF cpuinfo_ok THEN BOOLEAN ELSE {FALSE})
  /\ pc = "new"
  /\ trans_ = FALSE
  /\ smat_ = <<>>
  /\ ld_ = 0
  /\ brow_ = 0
  /\ bcol_ = 0
  /\ row_interleave_B_ = 0
  /\ buf_ = <<>>
  /\ row_offset_ = <<>>
  /\ packedBlock_ = NoBlock
  /\ ncalls = 0
  /\ lastBlock = NoBlock
  /\ wbuf = {}
  /\ wro = {}
  /\ run = NoRun
  /\ sizeResult = NoSize

\* Profile the constructor picks: AVX-512 first, then AVX2.
SelectedProfile ==
  IF has_avx512f
    THEN [ok |-> TRUE, brow |-> MCB_avx512, bcol |-> KCB_avx512,
          ri |-> ROW_INTERLEAVE_avx512]
  ELSE IF has_avx2
    THEN [ok |-> TRUE, brow |-> MCB_avx2, bcol |-> KCB_avx2,
          ri |-> ROW_INTERLEAVE_avx2]
  ELSE [ok |-> FALSE, brow |-> 0, bcol |-> 0, ri |-> 0]

\* Contents of the buffers before the first pack(): nothing initialises them.
StaleTile(n) == [k \in 0..(n - 1) |-> 1 + (k % 7)]
StaleRowOffset(n) == [r \in 0..(n - 1) |-> 1000 + r]

Construct(tr, groups) ==
  /\ pc = "new"
  /\ IF groups = 1 /\ SelectedProfile.ok
       THEN /\ pc' = "ready"
            /\ trans_' = tr
            /\ ld_' = Stride(tr)
            /\ smat_' = Store(tr, Stride(tr))
            /\ brow_' = SelectedProfile.brow
            /\ bcol_' = SelectedProfile.bcol
            /\ row_interleave_B_' = SelectedProfile.ri
            /\ buf_' = StaleTile(SelectedProfile.brow * SelectedProfile.bcol)
            /\ row_offset_' = StaleRowOffset(SelectedProfile.brow)
       ELSE /\ pc' = "abort"
            /\ UNCHANGED <<trans_, smat_, ld_, brow_, bcol_, row_interleave_B_,
                           buf_, row_offset_>>
  /\ UNCHANGED <<host, packedBlock_, ncalls, lastBlock, wbuf, wro, run,
                 sizeResult>>

\* Column tiles presented in increasing order from column 0 for one row tile.
NextRun(block) ==
  IF block.col_start = 0
    THEN [valid |-> TRUE, row_start |-> block.row_start,
          row_size |-> block.row_size, end |-> block.col_size]
  ELSE IF /\ run.valid
          /\ run.row_start = block.row_start
          /\ run.row_size = block.row_size
          /\ run.end = block.col_start
    THEN [run EXCEPT !.end = block.col_start + block.col_size]
  ELSE NoRun

Pack(block) ==
  /\ pc = "ready"
  /\ ncalls < MaxCalls
  /\ ncalls' = ncalls + 1
  /\ lastBlock' = block
  /\ IF PackAsserts(block)
       THEN /\ packedBlock_' = block_p(block)
            /\ buf_' = PackRows(Src, buf_, block, block.row_start)
            /\ row_offset_' = PackRowOffsets(Src, row_offset_, block)
            /\ wbuf' = UNION {RowWritten(block, i) :
                       i \in block.row_start..(block.row_start + block.row_size - 1)}
            /\ wro' = RowOffsetWritten(block)
            /\ run' = NextRun(block)
            /\ pc' = "ready"
       ELSE /\ pc' = "abort"
            /\ UNCHANGED <<packedBlock_, buf_, row_offset_, wbuf, wro, run>>
  /\ UNCHANGED <<host, trans_, smat_, ld_, brow_, bcol_, row_interleave_B_,
                 sizeResult>>

\* Static query; needs no packer.  Throws when cpuinfo cannot be initialised,
\* asserts on a host with neither instruction set.
RowOffsetBufferSize ==
  /\ pc # "abort"
  /\ IF cpuinfo_ok
       THEN IF has_avx512f
              THEN sizeResult' = [kind |-> "value", value |-> MCB_avx512] /\ pc' = pc
            ELSE IF has_avx2
              THEN sizeResult' = [kind |-> "value", value |-> MCB_avx2] /\ pc' = pc
            ELSE sizeResult' = sizeResult /\ pc' = "abort"
       ELSE sizeResult' = [kind |-> "throw", value |-> 0] /\ pc' = pc
  /\ UNCHANGED <<host, trans_, smat_, ld_, brow_, bcol_, row_interleave_B_,
                 buf_, row_offset_, packedBlock_, ncalls, lastBlock, wbuf, wro,
                 run>>

\* Descriptors the caller presents: both row tiles and both column tiles of
\* the source, full and short tiles, column sizes around the vector width,
\* and one descriptor per violated size or alignment.
ColSizes ==
  {c \in 0..bcol_ : c <= 2 \/ c >= bcol_ - 1 \/ c = VecWidth \/ c = VecWidth + 1}

FullBlock ==
  [row_start |-> 0, row_size |-> brow_, col_start |-> 0, col_size |-> bcol_]

OffBlocks ==
  {[FullBlock EXCEPT !.row_start = 1],
   [FullBlock EXCEPT !.col_start = 1],
   [FullBlock EXCEPT !.row_size = brow_ + 1],
   [FullBlock EXCEPT !.col_size = bcol_ + 1]}

Blocks ==
  [row_start : {0, brow_}, row_size : {brow_ - 1, brow_},
   col_start : {0, bcol_}, col_size : ColSizes] \cup OffBlocks

Next ==
  \/ \E tr \in BOOLEAN, groups \in {1, 2} : Construct(tr, groups)
  \/ \E block \in Blocks : Pack(block)
  \/ RowOffsetBufferSize

Spec == Init /\ [][Next]_vars

(* ----------------------------------------------------------------------- *)
(* Properties.                                                             *)
(* ----------------------------------------------------------------------- *)
\* Naive scalar sum of logical row i over columns [j0, j1).
RECURSIVE RefSum(_, _, _)
RefSum(i, j0, j1) ==
  IF j0 >= j1 THEN 0 ELSE Elem(i, j0) + RefSum(i, j0 + 1, j1)

\* The latest pack() call completed.
Packed == pc = "ready" /\ ncalls > 0

\* A step that is a pack() call, and one that completes.
PackStep == pc = "ready" /\ ncalls' = ncalls + 1
PackDone == PackStep /\ pc' = "ready"

PackedRows == 0..(lastBlock.row_size - 1)

\* C1: after a pack() with col_start = 0, RowOffsetBuffer[i] for every packed
\* row i is the exact sum of logical row row_start + i over [0, col_size), in
\* both layout modes and whatever the buffer held before (vector-only sizes
\* and sizes with a scalar remainder alike).
C1_FirstTileRowSums ==
  (Packed /\ lastBlock.col_start = 0) =>
    \A i \in PackedRows :
      row_offset_[i] = RefSum(lastBlock.row_start + i, 0, lastBlock.col_size)

C1_Witness ==
  /\ Packed
  /\ ~trans_
  /\ lastBlock.col_start = 0
  /\ lastBlock.col_size = VecWidth + 1
  /\ lastBlock.row_size > 0
  /\ lastBlock.row_start > 0

\* C2: while column tiles of one row tile are presented in increasing order
\* from column 0, RowOffsetBuffer[i] is the exact running sum of logical row
\* row_start + i over [0, col_start + col_size) of the latest call.
C2_RunningRowSums ==
  (Packed /\ run.valid) =>
    \A i \in 0..(run.row_size - 1) :
      row_offset_[i] = RefSum(run.row_start + i, 0, run.end)

C2_Witness ==
  /\ Packed
  /\ run.valid
  /\ lastBlock.col_start = bcol_
  /\ lastBlock.col_size > 0
  /\ lastBlock.row_size > 0
  /\ run.end = bcol_ + lastBlock.col_size

\* C3: in direct mode the first col_size columns of every packed tile row
\* equal the source read through the stride, smat[(row_start+i)*ld +
\* col_start + j], which is logical element (row_start+i, col_start+j).
C3_DirectCopy ==
  (Packed /\ ~trans_) =>
    \A i \in PackedRows : \A j \in 0..(lastBlock.col_size - 1) :
      /\ buf_[i * bcol_ + j] =
           smat_[(lastBlock.row_start + i) * ld_ + lastBlock.col_start + j]
      /\ buf_[i * bcol_ + j] =
           Elem(lastBlock.row_start + i, lastBlock.col_start + j)

C3_Witness ==
  /\ Packed
  /\ ~trans_
  /\ lastBlock.row_size > 0
  /\ lastBlock.row_start > 0
  /\ lastBlock.col_start > 0
  /\ lastBlock.col_size > 1

\* The same logical matrix stored for the other layout mode.
Mirror ==
  [trans |-> ~trans_, smat |-> Store(~trans_, Stride(~trans_)),
   ld |-> Stride(~trans_)]

\* C4: a pack() in one layout mode leaves the tile and the row sums that a
\* pack() of the transposed storage in the other mode, with its stride,
\* leaves from the same prior tile and RowOffsetBuffer.
C4_TransposeEquivalence ==
  [][PackDone =>
       LET other == Mirror IN
         /\ buf_' = PackRows(other, buf_, lastBlock', lastBlock'.row_start)
         /\ row_offset_' = PackRowOffsets(other, row_offset_, lastBlock')]_vars

C4_Witness ==
  /\ Packed
  /\ trans_
  /\ lastBlock.col_size > VecWidth
  /\ lastBlock.col_start > 0
  /\ lastBlock.row_size > 0

\* C5: after pack(), in both modes, every column in [col_size,
\* round_up(col_size, interleave)) of every packed row holds 0.
C5_ZeroPadding ==
  Packed =>
    \A i \in PackedRows :
      \A j \in lastBlock.col_size..
               (RoundUp(lastBlock.col_size, row_interleave_B_) - 1) :
        buf_[i * bcol_ + j] = 0

C5_Witness ==
  /\ Packed
  /\ lastBlock.row_size > 0
  /\ lastBlock.col_size > 0
  /\ RoundUp(lastBlock.col_size, row_interleave_B_) > lastBlock.col_size + 1

\* C6 as stated: a short tile is zero to the full tile width.
C6_ZeroToFullWidth ==
  (Packed /\ lastBlock.col_size < bcol_) =>
    \A i \in PackedRows : \A j \in lastBlock.col_size..(bcol_ - 1) :
      buf_[i * bcol_ + j] = 0

\* C6 amended: a pack() of a short block zero-fills only up to the
\* interleave-rounded column count; the columns from there to the tile width
\* keep what the tile held before the call.
C6_ZeroToRoundedWidth ==
  [][(PackDone /\ lastBlock'.col_size < bcol_) =>
       \A i \in 0..(lastBlock'.row_size - 1) :
         LET padded == RoundUp(lastBlock'.col_size, row_interleave_B_) IN
           /\ \A j \in lastBlock'.col_size..(padded - 1) :
                buf_'[i * bcol_ + j] = 0
           /\ \A j \in padded..(bcol_ - 1) :
                buf_'[i * bcol_ + j] = buf_[i * bcol_ + j]]_vars

C6_Witness ==
  /\ Packed
  /\ lastBlock.row_size > 0
  /\ lastBlock.col_size > 0
  /\ RoundUp(lastBlock.col_size, row_interleave_B_) > lastBlock.col_size
  /\ RoundUp(lastBlock.col_size, row_interleave_B_) < bcol_
  /\ buf_[RoundUp(lastBlock.col_size, row_interleave_B_)] # 0

\* The preconditions of pack() as the interface states them.
Aligned(block) ==
  /\ \E q \in 0..block.row_start : block.row_start = q * brow_
  /\ \E q \in 0..block.col_start : block.col_start = q * bcol_

WithinTile(block) ==
  /\ block.row_size <= brow_
  /\ block.col_size <= bcol_
  /\ \A p \in 0..(block.col_size + row_interleave_B_) :
       (p >= block.col_size /\ p % row_interleave_B_ = 0
          /\ p < block.col_size + row_interleave_B_) => p <= bcol_

\* C7: a pack() call that violates a precondition ends in the assertion
\* failure with the tile, the RowOffsetBuffer and the recorded block
\* untouched; a call that meets them completes.
C7_AssertBeforeWrite ==
  [][PackStep =>
       IF Aligned(lastBlock') /\ WithinTile(lastBlock')
         THEN pc' = "ready"
         ELSE /\ pc' = "abort"
              /\ buf_' = buf_
              /\ row_offset_' = row_offset_
              /\ packedBlock_' = packedBlock_]_vars

C7_Witness ==
  /\ pc = "abort"
  /\ ncalls = MaxCalls
  /\ lastBlock.row_size > brow_
  /\ packedBlock_ # NoBlock

\* Coordinates of the packed grid.
Grid == (0..(numPackedRows - 1)) \X (0..(numPackedCols - 1))

\* C8: addr is injective over the packed grid and is the base of the tile
\* (tiles stored row of tiles major) plus (r mod R) * C + (c mod C).
C8_AddrInjective ==
  Packed =>
    /\ Cardinality({addr(g[1], g[2]) : g \in Grid}) = Cardinality(Grid)
    /\ \A g \in Grid :
         addr(g[1], g[2]) =
           ((g[1] \div brow_) * blockCols + (g[2] \div bcol_)) * (brow_ * bcol_)
             + (g[1] % brow_) * bcol_ + (g[2] % bcol_)

C8_Witness ==
  /\ Packed
  /\ numPackedRows > 1
  /\ numPackedCols > 1
  /\ numPackedRows = brow_
  /\ numPackedCols = bcol_

\* C9: a completed pack() leaves every RowOffsetBuffer entry at or beyond
\* row_size, every tile row at or beyond row_size and every tile column at or
\* beyond the interleave-rounded col_size as it was, and never writes the
\* source.
C9_Frame ==
  [][PackDone =>
       /\ \A r \in DOMAIN row_offset_ :
            r >= lastBlock'.row_size => row_offset_'[r] = row_offset_[r]
       /\ \A k \in DOMAIN buf_ :
            (\/ k \div bcol_ >= lastBlock'.row_size
             \/ k % bcol_ >= RoundUp(lastBlock'.col_size, row_interleave_B_))
              => buf_'[k] = buf_[k]
       /\ DOMAIN buf_' = DOMAIN buf_
       /\ DOMAIN row_offset_' = DOMAIN row_offset_
       /\ smat_' = smat_]_vars

C9_Witness ==
  /\ Packed
  /\ ncalls = MaxCalls
  /\ lastBlock.row_size > 0
  /\ lastBlock.row_size < brow_
  /\ lastBlock.col_size > 0
  /\ RoundUp(lastBlock.col_size, row_interleave_B_) < bcol_
  /\ buf_[lastBlock.row_size * bcol_] # 0
  /\ row_offset_[lastBlock.row_size] # 0

\* C10: on every host the constructor accepts (AVX-512 before AVX2), every
\* tile index pack() writes is in [0, R*C) and every RowOffsetBuffer index in
\* [0, R), the buffers have these sizes, and R is what rowOffsetBufferSize()
\* returns on that host; with C a multiple of the interleave factor, a
\* col_size within C rounds up to at most C.
C10_WritesInBounds ==
  pc = "ready" =>
    /\ brow_ = (IF has_avx512f THEN MCB_avx512 ELSE MCB_avx2)
    /\ DOMAIN buf_ = 0..(brow_ * bcol_ - 1)
    /\ DOMAIN row_offset_ = 0..(brow_ - 1)
    /\ wbuf \subseteq 0..(brow_ * bcol_ - 1)
    /\ wro \subseteq 0..(brow_ - 1)
    /\ sizeResult.kind = "value" => sizeResult.value = brow_
    /\ bcol_ % row_interleave_B_ = 0 =>
         \A c \in 0..bcol_ : RoundUp(c, row_interleave_B_) <= bcol_

C10_Witness ==
  /\ Packed
  /\ has_avx512f
  /\ has_avx2
  /\ sizeResult.kind = "value"
  /\ lastBlock.row_start > 0
  /\ Cardinality(wbuf) = brow_ * bcol_
  /\ Cardinality(wro) = brow_

====
